---- MODULE Spec2Model ----
(***************************************************************************)
(* Model of the cdk-cognito-api-postman CDK application.                   *)
(*                                                                         *)
(* The only computation the repository performs itself is the derivation   *)
(* of the Cognito hosted-UI domain prefix in CognitoConstruct's            *)
(* constructor (src/src/constructs/api-gateway-construct.ts, lines 64-72   *)
(* and 110-115).  Strings are modelled as sequences of one-character       *)
(* strings so that substring, toLowerCase and the two replace calls are    *)
(* computed character by character, as JavaScript computes them.           *)
(***************************************************************************)
EXTENDS Integers, Sequences, FiniteSets, TLC

VARIABLES
    stackName,          \* Stack.of(this).stackName
    region,             \* Stack.of(this).region
    randomString,       \* Math.random().toString(36) of the running constructor
    randomSuffix,       \* const randomSuffix
    uniqueDomainPrefix, \* const uniqueDomainPrefix
    domainPrefix,       \* cognitoDomain.domainPrefix handed to addDomain
    prevSuffix,         \* randomSuffix of the preceding synthesis
    prevDomainPrefix,   \* domainPrefix of the preceding synthesis
    pc                  \* position in CognitoConstruct's constructor

vars == << stackName, region, randomString, randomSuffix, uniqueDomainPrefix,
           domainPrefix, prevSuffix, prevDomainPrefix, pc >>

(***************************************************************************)
(* Bounds of the model.                                                    *)
(***************************************************************************)
\* Longest run of padding characters put in front of a stack name.
MaxPad == 62
\* Longest generated fraction of a base-36 rendering of Math.random().
MaxFraction == 2

(***************************************************************************)
(* Program constants.                                                      *)
(***************************************************************************)
\* .substring(0, 63): "Domain prefix has a max length of 63 characters"
MaxPrefixLength == 63
\* .substring(2, 8) of the base-36 rendering of Math.random()
SuffixStart == 2
SuffixEnd == 8

None == << "none" >>

(***************************************************************************)
(* Characters.                                                             *)
(***************************************************************************)
LowerLetters ==
    { "a", "b", "c", "d", "e", "f", "g", "h", "i", "j", "k", "l", "m",
      "n", "o", "p", "q", "r", "s", "t", "u", "v", "w", "x", "y", "z" }

Digits == { "0", "1", "2", "3", "4", "5", "6", "7", "8", "9" }

\* The character class [a-z0-9-] of the sanitising regular expression.
ValidChars == LowerLetters \cup Digits \cup { "-" }

UpperSeq == << "A", "B", "C", "D", "E", "F", "G", "H", "I", "J", "K", "L", "M",
               "N", "O", "P", "Q", "R", "S", "T", "U", "V", "W", "X", "Y", "Z" >>

LowerSeq == << "a", "b", "c", "d", "e", "f", "g", "h", "i", "j", "k", "l", "m",
               "n", "o", "p", "q", "r", "s", "t", "u", "v", "w", "x", "y", "z" >>

UpperLetters == { UpperSeq[i] : i \in 1..Len(UpperSeq) }

\* toLowerCase on one character: A-Z map to a-z, every other character is kept.
LowerChar(c) ==
    IF c \in UpperLetters
    THEN LowerSeq[CHOOSE i \in 1..Len(UpperSeq) : UpperSeq[i] = c]
    ELSE c

(***************************************************************************)
(* String operations of the constructor.                                   *)
(***************************************************************************)
Min(a, b) == IF a < b THEN a ELSE b
Max(a, b) == IF a > b THEN a ELSE b

\* String.prototype.substring(start, end): both indices are clamped to
\* [0, length] and swapped when start > end; the result is s[start .. end-1].
Substring(s, start, end) ==
    LET a == Min(Max(start, 0), Len(s))
        b == Min(Max(end, 0), Len(s))
        lo == Min(a, b)
        hi == Max(a, b)
    IN  SubSeq(s, lo + 1, hi)

\* String.prototype.toLowerCase()
ToLowerCase(s) == [i \in 1..Len(s) |-> LowerChar(s[i])]

\* A sanitisation that drops invalid characters: .replace(/[^a-z0-9-]/g, "")
IsValidChar(c) == c \in ValidChars

RemoveInvalid(s) == SelectSeq(s, IsValidChar)

\* .replace(/[^a-z0-9-]/g, "-")
ReplaceInvalid(s) ==
    [i \in 1..Len(s) |-> IF s[i] \in ValidChars THEN s[i] ELSE "-"]

StartsWith(s, pat) ==
    /\ Len(s) >= Len(pat)
    /\ SubSeq(s, 1, Len(pat)) = pat

\* .replace(/pat/g, rep) for a literal pattern: leftmost, non-overlapping
\* matches, scanning resumes after each match.
RECURSIVE ReplaceAll(_, _, _)
ReplaceAll(s, pat, rep) ==
    IF Len(s) < Len(pat) THEN s
    ELSE IF StartsWith(s, pat)
         THEN rep \o ReplaceAll(SubSeq(s, Len(pat) + 1, Len(s)), pat, rep)
         ELSE << Head(s) >> \o ReplaceAll(Tail(s), pat, rep)

Cognito == << "c", "o", "g", "n", "i", "t", "o" >>
Auth == << "a", "u", "t", "h" >>

\* A replace without the g flag: only the first match is replaced.
RECURSIVE ReplaceFirst(_, _, _)
ReplaceFirst(s, pat, rep) ==
    IF Len(s) < Len(pat) THEN s
    ELSE IF StartsWith(s, pat)
         THEN rep \o SubSeq(s, Len(pat) + 1, Len(s))
         ELSE << Head(s) >> \o ReplaceFirst(Tail(s), pat, rep)

ReplaceBrandFirstOnly(s) == ReplaceFirst(s, Cognito, Auth)

\* .replace(/cognito/g, "auth")
ReplaceBrand(s) == ReplaceAll(s, Cognito, Auth)

\* `${stack.stackName.toLowerCase()}-${stack.region}-${randomSuffix}`
Compose(name, reg, suffix) ==
    ToLowerCase(name) \o << "-" >> \o reg \o << "-" >> \o suffix

\* .substring(0, 63)
Truncate(s) == Substring(s, 0, MaxPrefixLength)

\* The whole expression of lines 67-72.
UniqueDomainPrefix(name, reg, suffix) ==
    ReplaceBrand(ReplaceInvalid(Truncate(Compose(name, reg, suffix))))

\* Math.random().toString(36).substring(2, 8)
RandomSuffix(str) == Substring(str, SuffixStart, SuffixEnd)

(***************************************************************************)
(* Inputs.                                                                 *)
(***************************************************************************)
RECURSIVE Pad(_)
Pad(n) == IF n = 0 THEN << >> ELSE << "a" >> \o Pad(n - 1)

\* Stack names the CDK accepts (a letter, then letters, digits and hyphens):
\* the one the application passes, and names that hold the brand substring
\* nested, twice, and next to a hyphen.
StackCores ==
    { << "C", "d", "k", "C", "o", "g", "n", "i", "t", "o", "A", "p", "i",
         "P", "o", "s", "t", "m", "a", "n", "S", "t", "a", "c", "k" >>,
      << "c", "o", "g", "n", "c", "o", "g", "n", "i", "t", "o", "i", "t", "o" >>,
      << "C", "o", "g", "n", "i", "t", "o", "-", "c", "o", "g", "n", "i", "t", "o" >>,
      << "A", "p", "i", "-", "S", "t", "a", "c", "k" >>,
      << "x" >> }

\* Strings that are no stack name the CDK accepts: names with underscores,
\* '!' and '.', a name in capitals, the empty name.
OtherCores ==
    { << "M", "y", "_", "C", "o", "g", "n", "i", "t", "o", "_", "S", "t",
         "a", "c", "k", "!", "!" >>,
      << "M", "y", "_", "C", "o", "g", "n", "i", "t", "o", "_", "c", "o",
         "g", "n", "i", "t", "o", "!" >>,
      << "_", "C", "O", "G", "N", "I", "T", "O", "." >>,
      << >> }

StackNames == { Pad(n) \o core : n \in 0..MaxPad, core \in StackCores }

AnyNames ==
    StackNames
        \cup { Pad(n) \o core : n \in 0..MaxPad, core \in OtherCores }
        \cup { core \o Pad(n) : n \in 0..MaxPad, core \in OtherCores }

\* Regions: the region of the deploy workflow, a longer one, and the
\* unresolved token an environment-agnostic stack renders.
Regions ==
    { << "u", "s", "-", "e", "a", "s", "t", "-", "1" >>,
      << "a", "p", "-", "s", "o", "u", "t", "h", "e", "a", "s", "t", "-", "2" >>,
      << "$", "{", "T", "o", "k", "e", "n", "[", "A", "W", "S", ".", "R",
         "e", "g", "i", "o", "n", ".", "4", "]", "}" >> }

\* Base-36 renderings of a number in [0, 1): "0" for zero, otherwise "0."
\* followed by at least one digit.
FractionChars == { "z" }

Fractions == UNION { [1..n -> FractionChars] : n \in 1..MaxFraction }

RandomStrings ==
    { << "0" >> }
        \cup { << "0", "." >> \o f : f \in Fractions }
        \cup {
      << "0", ".", "4", "f", "z", "y", "o", "8", "2", "m", "v", "y", "r" >>,
      << "0", ".", "4", "f", "z", "y", "o", "9", "2", "m", "v", "y", "r" >>,
      << "0", ".", "c", "o", "g", "n", "i", "t", "o", "x" >> }

(***************************************************************************)
(* The state machine: one synthesis of the application runs                *)
(* CognitoConstruct's constructor once; a later synthesis runs it again    *)
(* for the same stack and region with a fresh Math.random().               *)
(***************************************************************************)
InitWith(names) ==
    /\ stackName \in names
    /\ region \in Regions
    /\ randomString = None
    /\ randomSuffix = None
    /\ uniqueDomainPrefix = None
    /\ domainPrefix = None
    /\ prevSuffix = None
    /\ prevDomainPrefix = None
    /\ pc = "random"

\* new CdkCognitoApiPostmanStack(app, <a stack name the CDK accepts>, ...)
Init == InitWith(StackNames)

\* The same construct under a stack name of arbitrary characters.
InitAnyName == InitWith(AnyNames)

\* line 66
DrawRandomSuffix ==
    /\ pc = "random"
    /\ \E str \in RandomStrings :
         /\ randomString' = str
         /\ randomSuffix' = RandomSuffix(str)
    /\ pc' = "prefix"
    /\ UNCHANGED << stackName, region, uniqueDomainPrefix, domainPrefix,
                    prevSuffix, prevDomainPrefix >>

\* lines 67-72
ComputeDomainPrefix ==
    /\ pc = "prefix"
    /\ uniqueDomainPrefix' = UniqueDomainPrefix(stackName, region, randomSuffix)
    /\ pc' = "domain"
    /\ UNCHANGED << stackName, region, randomString, randomSuffix, domainPrefix,
                    prevSuffix, prevDomainPrefix >>

\* lines 111-115
AddDomain ==
    /\ pc = "domain"
    /\ domainPrefix' = uniqueDomainPrefix
    /\ pc' = "done"
    /\ UNCHANGED << stackName, region, randomString, randomSuffix,
                    uniqueDomainPrefix, prevSuffix, prevDomainPrefix >>

\* app.synth() of a later run of the application
Resynth ==
    /\ pc = "done"
    /\ prevSuffix = None
    /\ prevSuffix' = randomSuffix
    /\ prevDomainPrefix' = domainPrefix
    /\ randomString' = None
    /\ randomSuffix' = None
    /\ uniqueDomainPrefix' = None
    /\ domainPrefix' = None
    /\ pc' = "random"
    /\ UNCHANGED << stackName, region >>

Next ==
    \/ DrawRandomSuffix
    \/ ComputeDomainPrefix
    \/ AddDomain
    \/ Resynth

Spec == Init /\ [][Next]_vars

SpecAnyName == InitAnyName /\ [][Next]_vars

(***************************************************************************)
(* Properties.                                                             *)
(***************************************************************************)
Contains(s, pat) ==
    \E i \in 1..(Len(s) - Len(pat) + 1) : SubSeq(s, i, i + Len(pat) - 1) = pat

Generated == domainPrefix # None

\* C1: for every stack name, region and random suffix, the domain prefix
\* the construct hands to the user pool domain is at most 63 characters
\* long, consists of characters of [a-z0-9-] only (no uppercase letter, no
\* underscore, no '!'), and does not contain the substring "cognito".
C1_PrefixSanitised ==
    Generated =>
        /\ Len(domainPrefix) <= MaxPrefixLength
        /\ \A i \in 1..Len(domainPrefix) : domainPrefix[i] \in ValidChars
        /\ ~Contains(domainPrefix, Cognito)

\* A prefix generated from a composed string that is longer than 63
\* characters, whose stack name holds an underscore, a '!', an uppercase
\* letter and the brand substring twice after lower-casing.
C1_Witness ==
    /\ Generated
    /\ Len(Compose(stackName, region, randomSuffix)) > MaxPrefixLength
    /\ \E i, j, k \in 1..Len(stackName) :
          /\ stackName[i] = "_"
          /\ stackName[j] = "!"
          /\ stackName[k] \in UpperLetters
    /\ Contains(ToLowerCase(stackName), Cognito)
    /\ Contains(domainPrefix, Auth)

\* C2: for a fixed stack name and region, two generations that draw
\* different random suffixes produce different domain prefixes, also when
\* the composed string is long enough for the 63-character truncation.
C2_DistinctSuffixDistinctPrefix ==
    (Generated /\ prevSuffix # None /\ prevSuffix # randomSuffix)
        => domainPrefix # prevDomainPrefix

\* C3: every generated domain prefix is non-empty, at most 63 characters
\* long, and neither begins nor ends with '-'.
C3_DnsLabelSafe ==
    Generated =>
        /\ Len(domainPrefix) > 0
        /\ Len(domainPrefix) <= MaxPrefixLength
        /\ domainPrefix[1] # "-"
        /\ domainPrefix[Len(domainPrefix)] # "-"

\* The composed string of the running constructor, before .substring(0, 63).
Composed == Compose(stackName, region, randomSuffix)

Computed == uniqueDomainPrefix # None

\* C11: truncation to 63 characters and sanitisation commute on every
\* composed string: sanitising the truncated string, as the code does, gives
\* the same string as truncating the sanitised one, so the computed prefix
\* is also the one obtained in the order compose, sanitise, truncate,
\* de-brand.
C11_TruncateSanitiseCommute ==
    Computed =>
        /\ ReplaceInvalid(Truncate(Composed)) = Truncate(ReplaceInvalid(Composed))
        /\ uniqueDomainPrefix = ReplaceBrand(Truncate(ReplaceInvalid(Composed)))

\* A computed prefix whose composed string is cut by the truncation, holds
\* invalid characters on both sides of the cut, and for which moving the
\* de-branding in front of the truncation would change the result.
C11_Witness ==
    /\ Computed
    /\ Len(Composed) > MaxPrefixLength
    /\ \E i \in 1..MaxPrefixLength : Composed[i] \notin ValidChars
    /\ \E i \in (MaxPrefixLength + 1)..Len(Composed) : Composed[i] \notin ValidChars
    /\ Truncate(ReplaceBrand(ReplaceInvalid(Composed))) # uniqueDomainPrefix

====
